---- MODULE Spec2Model ----
(***************************************************************************)
(* Model of script.js: the seeded problem generator (LCG + Box-Muller     *)
(* redraw loops), the fit evaluator (evalPoly, computeMSE) and the UI      *)
(* session (startup script, slider input, new-problem and download         *)
(* handlers).                                                              *)
(*                                                                         *)
(* Number representations                                                  *)
(*  - a 32-bit unsigned word is the pair <<hi, lo>> of its 16-bit halves,  *)
(*    so that the multiply-add of the LCG never leaves 31-bit arithmetic;  *)
(*  - the value returned by rand() is state / 0xffffffff; it is carried as *)
(*    its numerator, the state word itself;                                *)
(*  - values that depend on Math.log / Math.cos (a sample's y, the y       *)
(*    bounds, the MSE of generated data) are carried as the tuple of draws *)
(*    and arguments that determine them.                                   *)
(***************************************************************************)
EXTENDS Integers, Sequences, FiniteSets, TLC

VARIABLES
  gen,        \* the generator invocation: rng closure state, loop indices, locals
  state,      \* `state`: the current Problem                     (script.js:90)
  weights,    \* `weights`: the adjustable model weights          (script.js:100)
  dom,        \* which of the looked-up elements exist in the document
  page,       \* what the chart and the DOM elements currently show
  listeners,  \* which click listeners the script has attached
  threw,      \* the last script / handler run ended in an uncaught TypeError
  lastEvent,  \* the event whose handler ran last, with the file it offered
  produced,   \* every Problem a generator invocation has returned so far
  call        \* a direct call of an evaluator function: its arguments and result

vars == <<gen, state, weights, dom, page, listeners, threw, lastEvent,
          produced, call>>

-----------------------------------------------------------------------------
(* Bounds of the model *)

NumSeeds == 3       \* seeds a new-problem click may draw: SeedAt(1..NumSeeds)
NumGenSeeds == 6    \* seeds of the invocations followed draw by draw
NumSliderVals == 1  \* slider positions an input event may report
MaxLen == 3         \* longest coefficient vector handed to the evaluator directly
MaxData == 2        \* longest sample sequence handed to computeMSE directly
MaxRedraw == 3      \* a redraw loop is followed for at most this many draws

-----------------------------------------------------------------------------
(* 32-bit words *)

Half == 2^16

Word(n) == <<n \div Half, n % Half>>        \* for 0 <= n < 2^31

ZeroWord == <<0, 0>>
MaxWord == <<Half - 1, Half - 1>>           \* 0xffffffff

\* seed >>> 0
ToUint32(w) == <<w[1] % Half, w[2] % Half>>

WordLess(a, b) == a[1] < b[1] \/ (a[1] = b[1] /\ a[2] < b[2])

-----------------------------------------------------------------------------
(* createLCG *)

MULT == 1664525
INC == 1013904223

\* mutant of LCGNext: the increment is dropped, so state 0 is never left
LCGNext_noIncrement(w) ==
  LET a  == Word(MULT)
      lo == w[2] * a[2]
      hi == w[1] * a[2] + w[2] * a[1] + (lo \div Half)
  IN  <<hi % Half, lo % Half>>

\* state = (1664525 * state + 1013904223) >>> 0
\* The product stays below 2^53, so the double arithmetic of the script is
\* exact and >>> 0 reduces it modulo 2^32.
LCGNext(w) ==
  LET a  == Word(MULT)
      c  == Word(INC)
      lo == w[2] * a[2] + c[2]
      hi == w[1] * a[2] + w[2] * a[1] + (lo \div Half) + c[1]
  IN  <<hi % Half, lo % Half>>

\* let state = seed >>> 0
createLCG(seed) == ToUint32(seed)

\* rand() returns state / 0xffffffff: the numerator is the state, and the
\* quotient is 0 exactly for state 0 and 1 exactly for state 0xffffffff.
RandIsZero(w) == w = ZeroWord
RandBelowOne(w) == WordLess(w, MaxWord)

\* Math.floor(a + (b - a + 1) * t) for t = w / 0xffffffff.
\* With n = (b-a+1)*w = q0*2^32 + r0:  floor(n / (2^32-1)) is q0, plus one
\* when q0 + r0 >= 2^32 - 1.
randomIntInclusive(w, a, b) ==
  LET m   == b - a + 1
      lo  == w[2] * m
      hi  == w[1] * m + (lo \div Half)
      q0  == hi \div Half
      r0  == <<hi % Half, lo % Half>>
      up  == r0[1] = Half - 1 /\ r0[2] + q0 >= Half - 1
  IN  a + q0 + (IF up THEN 1 ELSE 0)

-----------------------------------------------------------------------------
(* generatePolynomialProblem, one LCG draw per step *)

N == 40
DEGREE_MIN == 1
DEGREE_MAX == 4

\* const range = k === 0 ? 3.0 : (k === 1 ? 2.0 : 1.0)
CoeffRange(k) == IF k = 0 THEN 3 ELSE IF k = 1 THEN 2 ELSE 1

\* const rng = createLCG(seed >>> 0): the invocation before its first draw.
\* pc is the draw the invocation performs next; log lists the draws made so far.
StartGen(seed) ==
  [ pc     |-> "degree",
    seed   |-> seed,
    rng    |-> createLCG(ToUint32(seed)),
    degree |-> 0,
    coeffs |-> <<>>,
    points |-> <<>>,
    x      |-> ZeroWord,
    u      |-> ZeroWord,
    v      |-> ZeroWord,
    tries  |-> 0,
    minX   |-> ZeroWord,
    maxX   |-> ZeroWord,
    log    |-> <<>> ]

\* one call of rng() made for `purpose`: the state advances and is logged
Draw(g, purpose, idx) ==
  LET s == LCGNext(g.rng)
  IN  [g EXCEPT !.rng = s,
                !.log = Append(@, [purpose |-> purpose, idx |-> idx, draw |-> s])]

\* const degree = randomIntInclusive(rng, 1, 4)
StepDegree(g) ==
  LET d == Draw(g, "degree", 0)
  IN  [d EXCEPT !.degree = randomIntInclusive(d.rng, DEGREE_MIN, DEGREE_MAX),
                !.pc = "coeff"]

\* mutant of StepCoeff: the loop bound is k < degree, one coefficient short
StepCoeff_oneShort(g) ==
  LET k == Len(g.coeffs)
      d == Draw(g, "coeff", k)
      c == [k |-> k, u |-> d.rng, range |-> CoeffRange(k)]
  IN  [d EXCEPT !.coeffs = Append(@, c),
                !.pc = IF k + 1 < g.degree THEN "coeff" ELSE "x"]

\* for (k = 0; k <= degree; k++) coeffs.push((rng() * 2 - 1) * range)
StepCoeff(g) ==
  LET k == Len(g.coeffs)
      d == Draw(g, "coeff", k)
      c == [k |-> k, u |-> d.rng, range |-> CoeffRange(k)]
  IN  [d EXCEPT !.coeffs = Append(@, c),
                !.pc = IF k + 1 <= g.degree THEN "coeff" ELSE "x"]

\* const x = X_MIN + (X_MAX - X_MIN) * rng(); then gaussian() starts with u = 0, v = 0
StepX(g) ==
  LET d == Draw(g, "x", Len(g.points))
  IN  [d EXCEPT !.x = d.rng, !.u = ZeroWord, !.v = ZeroWord, !.tries = 0, !.pc = "u"]

\* while (u === 0) u = rng()
StepU(g) ==
  LET d == Draw(g, "u", Len(g.points))
  IN  [d EXCEPT !.u = d.rng,
                !.tries = IF RandIsZero(d.rng) THEN g.tries + 1 ELSE 0,
                !.pc = IF RandIsZero(d.rng) THEN "u" ELSE "v"]

\* while (v === 0) v = rng(); z = sqrt(-2 log u) cos(2 pi v); return { x, y }
StepV(g) ==
  LET d  == Draw(g, "v", Len(g.points))
      pt == [x |-> g.x, u |-> g.u, v |-> d.rng]
  IN  IF RandIsZero(d.rng)
        THEN [d EXCEPT !.v = d.rng, !.tries = g.tries + 1]
        ELSE [d EXCEPT !.v = d.rng, !.tries = 0,
                       !.points = Append(@, pt),
                       !.pc = IF Len(g.points) + 1 < N THEN "x" ELSE "bounds"]

\* const xVals = points.map(d => d.x)
xVals(pts) == {pts[i].x : i \in 1..Len(pts)}

\* Math.min(...xVals): x = X_MIN + (X_MAX - X_MIN) * t grows with its draw t
MinX(pts) == CHOOSE a \in xVals(pts) : \A b \in xVals(pts) : ~WordLess(b, a)

\* Math.max(...xVals)
MaxX(pts) == CHOOSE a \in xVals(pts) : \A b \in xVals(pts) : ~WordLess(a, b)

\* the Bounds block; minY / maxY are extrema of y values fixed by data
StepBounds(g) ==
  [g EXCEPT !.minX = MinX(g.points), !.maxX = MaxX(g.points), !.pc = "done"]

\* the next step of the invocation; none once it has returned
GenStep(g) ==
  CASE g.pc = "degree" -> StepDegree(g)
    [] g.pc = "coeff"  -> StepCoeff(g)
    [] g.pc = "x"      -> StepX(g)
    [] g.pc = "u"      -> StepU(g)
    [] g.pc = "v"      -> StepV(g)
    [] g.pc = "bounds" -> StepBounds(g)
    [] g.pc = "done"   -> g

\* n steps from g, computed by halves to keep the evaluation shallow
RECURSIVE RunFor(_, _)
RunFor(g, n) ==
  IF n <= 1
    THEN CHOOSE r \in {GenStep(h) : h \in {g}} : TRUE
    ELSE CHOOSE r \in {RunFor(h, n - (n \div 2)) : h \in {RunFor(g, n \div 2)}} : TRUE

\* the longest run: the degree draw, DEGREE_MAX + 2 coefficient draws, per
\* sample the x draw and two draws in each redraw loop, and the bounds step
StepBudget == 1 + (DEGREE_MAX + 2) + (5 * N) + 1

\* the invocation run to its return statement
RunGen(g) == RunFor(g, StepBudget)

\* return { seed, degree, coefficients, data, minX, maxX, ... }
ProblemOf(g) ==
  [ seed         |-> g.seed,
    degree       |-> g.degree,
    coefficients |-> g.coeffs,
    data         |-> g.points,
    minX         |-> g.minX,
    maxX         |-> g.maxX ]

generatePolynomialProblem(seed) == ProblemOf(RunGen(StartGen(seed)))

-----------------------------------------------------------------------------
(* Fit evaluator *)

\* mutant of evalPolyFrom: the power is multiplied by x at k = 0 as well
RECURSIVE evalPolyFrom_noGuard(_, _, _, _, _)
evalPolyFrom_noGuard(coeffs, x, k, xPow, sum) ==
  IF k >= Len(coeffs)
    THEN sum
    ELSE evalPolyFrom_noGuard(coeffs, x, k + 1, xPow * x, sum + coeffs[k + 1] * (xPow * x))

\* the loop of evalPoly from index k on, with the running power and sum
RECURSIVE evalPolyFrom(_, _, _, _, _)
evalPolyFrom(coeffs, x, k, xPow, sum) ==
  IF k >= Len(coeffs)
    THEN sum
    ELSE LET p == IF k > 0 THEN xPow * x ELSE xPow
         IN  evalPolyFrom(coeffs, x, k + 1, p, sum + coeffs[k + 1] * p)

\* let sum = 0; let xPow = 1; for (k = 0; k < coeffs.length; k++) ...
evalPoly(coeffs, x) == evalPolyFrom(coeffs, x, 0, 1, 0)

\* mutant of sumSquaresFrom: the residual is summed without being squared
RECURSIVE sumSquaresFrom_notSquared(_, _, _, _)
sumSquaresFrom_notSquared(data, coeffs, i, sum) ==
  IF i >= Len(data)
    THEN sum
    ELSE sumSquaresFrom_notSquared(data, coeffs, i + 1,
                                   sum + (data[i + 1].y - evalPoly(coeffs, data[i + 1].x)))

\* the loop of computeMSE from sample i on
RECURSIVE sumSquaresFrom(_, _, _, _)
sumSquaresFrom(data, coeffs, i, sum) ==
  IF i >= Len(data)
    THEN sum
    ELSE LET yHat == evalPoly(coeffs, data[i + 1].x)
             diff == data[i + 1].y - yHat
         IN  sumSquaresFrom(data, coeffs, i + 1, sum + diff * diff)

\* computeMSE reads the samples of the current Problem; the quotient sum / n
\* is carried as the fraction num / den
computeMSE(coeffs) ==
  LET n == Len(state.data)
  IN  IF n = 0
        THEN [num |-> 0, den |-> 1]
        ELSE [num |-> sumSquaresFrom(state.data, coeffs, 0, 0), den |-> n]

STEPS == 200

\* modelCurvePoints: STEPS + 1 points (x, evalPoly(coeffs, x)) from minX - xPad
\* to maxX + xPad; carried as what determines them
modelCurvePoints(coeffs, st) ==
  [coeffs |-> coeffs, minX |-> st.minX, maxX |-> st.maxX, steps |-> STEPS]

\* mse.toFixed(3) for the generated samples, whose y values involve log and cos;
\* carried as what determines it
mseText(coeffs, st) == [coeffs |-> coeffs, data |-> st.data, digits |-> 3]

\* the terms 'w0', 'w1·x', 'wk·x^k' joined by ' + '
formatSymbolicPolynomial(degree) ==
  IF degree <= 0
    THEN <<[w |-> 0, pow |-> 0]>>
    ELSE [i \in 1..(degree + 1) |-> [w |-> i - 1, pow |-> i - 1]]

-----------------------------------------------------------------------------
(* UI session: the script's top-level run and its event handlers *)

INITIAL_SEED == 12345
SLIDER_MIN == -10
SLIDER_MAX == 10

AllPresent ==
  [paramControls |-> TRUE, mse |-> TRUE, modelEq |-> TRUE,
   downloadCsv |-> TRUE, newProblem |-> TRUE, chart |-> TRUE]

AnyDocument ==
  [paramControls : BOOLEAN, mse : BOOLEAN, modelEq : BOOLEAN,
   downloadCsv : BOOLEAN, newProblem : BOOLEAN, chart : BOOLEAN]

\* mutant of initWeightsForDegree: new Array(degree), one entry short
initWeightsForDegree_short(degree) == [i \in 1..degree |-> IF i = 2 THEN 1 ELSE 0]

\* weights = new Array(degree + 1).fill(0); if (degree >= 1) weights[1] = 1
initWeightsForDegree(degree) ==
  LET filled == [i \in 1..(degree + 1) |-> 0]
  IN  IF degree >= 1 THEN [filled EXCEPT ![2] = 1] ELSE filled

\* v.toFixed(2) of a whole number v: sign, integer digits, two zero decimals
toFixed2(v) ==
  [neg |-> v < 0, int |-> IF v < 0 THEN 0 - v ELSE v, frac |-> <<0, 0>>]

\* one slider per weight, unless #paramControls is missing (early return)
rebuildControls(controls, w, d) ==
  IF ~d.paramControls
    THEN controls
    ELSE [k \in 1..Len(w) |->
            [id |-> k - 1, min |-> SLIDER_MIN, max |-> SLIDER_MAX,
             value |-> w[k], label |-> toFixed2(w[k])]]

\* chart.options.scales: x from minX - xPad to maxX + xPad, y from the y extrema
axisOf(st) == [minX |-> st.minX, maxX |-> st.maxX, yOf |-> st.data]

\* updateUI: model curve, then #mse (not guarded), then #modelEq (guarded)
updateUI(pg, w, st, d) ==
  LET p1 == [pg EXCEPT !.chartModel = modelCurvePoints(w, st)]
      p2 == [p1 EXCEPT !.mseText = mseText(w, st)]
      n  == IF Len(w) = 0 THEN 1 ELSE Len(w)
      dg == IF n - 1 > 0 THEN n - 1 ELSE 0
      p3 == IF d.modelEq
              THEN [p2 EXCEPT !.modelEqText = formatSymbolicPolynomial(dg)]
              ELSE p2
  IN  IF ~d.mse
        THEN [page |-> p1, threw |-> TRUE]
        ELSE [page |-> p3, threw |-> FALSE]

\* the document before the script touches it
BlankPage ==
  [chartData |-> <<>>, chartModel |-> <<>>, axis |-> "none",
   mseText |-> "static", modelEqText |-> "static", controls |-> <<>>]

\* let state = generatePolynomialProblem(12345)
StartupGenerate == RunGen(StartGen(Word(INITIAL_SEED)))

\* The script's top-level run in document d. It stops at the first uncaught
\* TypeError: getElementById('chart').getContext (180), downloadBtn
\* .addEventListener (260), newProblemBtn.addEventListener (280), and
\* mseEl.textContent inside updateUI (249).
RunScript(d) ==
  LET g0      == StartupGenerate
      st      == ProblemOf(g0)
      aborted == [gen |-> g0, state |-> st, weights |-> <<>>, page |-> BlankPage,
                  listeners |-> [download |-> FALSE, newProblem |-> FALSE],
                  threw |-> TRUE]
      charted == [BlankPage EXCEPT !.chartData = st.data, !.axis = axisOf(st)]
      w       == initWeightsForDegree(st.degree)
      built   == [charted EXCEPT !.controls = rebuildControls(@, w, d)]
      ui      == updateUI(built, w, st, d)
  IN  IF ~d.chart THEN aborted
      ELSE IF ~d.downloadCsv THEN [aborted EXCEPT !.page = charted]
      ELSE IF ~d.newProblem
        THEN [aborted EXCEPT !.page = charted, !.listeners.download = TRUE]
      ELSE [aborted EXCEPT !.weights = w, !.page = ui.page, !.threw = ui.threw,
                           !.listeners = [download |-> TRUE, newProblem |-> TRUE]]

NoCall == [fn |-> "none", coeffs |-> <<>>]

InitIn(documents) ==
  \E d \in documents : \E r \in {RunScript(d)} :
        /\ dom = d
        /\ gen = r.gen
        /\ state = r.state
        /\ weights = r.weights
        /\ page = r.page
        /\ listeners = r.listeners
        /\ threw = r.threw
        /\ lastEvent = [type |-> "startup"]
        /\ produced = {r.state}
        /\ call = NoCall

\* the seeds a click may draw (crypto.getRandomValues: any 32-bit word)
SeedAt(i) ==
  CASE i = 1 -> Word(INITIAL_SEED)
    [] i = 2 -> <<9973, 46880>>      \* 0x26f5b720: first state 0xffffffff
    [] i = 3 -> <<56847, 62808>>     \* 0xde0ff558: 8th state 0, a u draw
    [] i = 4 -> <<33140, 7325>>      \* 0x81741c9d: 9th state 0, a v draw
    [] i = 5 -> ZeroWord
    [] i = 6 -> <<9686, 4069>>       \* 0x25d60fe5: first state 0
    [] OTHER -> <<(i * 7919) % Half, (i * 10007) % Half>>

Seeds == {SeedAt(i) : i \in 1..NumSeeds}

SliderValAt(i) ==
  CASE i = 1 -> SLIDER_MIN
    [] i = 2 -> SLIDER_MAX
    [] OTHER -> ((i * 4) % (SLIDER_MAX - SLIDER_MIN + 1)) + SLIDER_MIN

SliderVals == {SliderValAt(i) : i \in 1..NumSliderVals}

\* every invocation the session can make, run to its return statement
Generated == [seed \in Seeds \cup {Word(INITIAL_SEED)} |-> RunGen(StartGen(seed))]

\* mutant of ClickGenerate: the LCG state is shared between invocations, so
\* the new invocation draws on from where the previous one stopped
ClickGenerate_sharedState(seed) == RunGen([StartGen(seed) EXCEPT !.rng = gen.rng])

\* state = generatePolynomialProblem(seed) in the click handler
ClickGenerate(seed) == Generated[seed]

\* what the click handler leaves behind, given the generator run g it made
ClickResult(g, pg, d) ==
  LET st == ProblemOf(g)
      w  == initWeightsForDegree(st.degree)
      p1 == [pg EXCEPT !.controls = rebuildControls(@, w, d),
                       !.chartData = st.data,
                       !.chartModel = modelCurvePoints(w, st),
                       !.axis = axisOf(st)]
      ui == updateUI(p1, w, st, d)
  IN  [gen |-> g, state |-> st, weights |-> w, page |-> ui.page, threw |-> ui.threw]

\* newProblemBtn click
NewProblemClick(seed) ==
  /\ listeners.newProblem
  /\ \E r \in {ClickResult(ClickGenerate(seed), page, dom)} :
         /\ gen' = r.gen
         /\ state' = r.state
         /\ weights' = r.weights
         /\ page' = r.page
         /\ threw' = r.threw
         /\ produced' = produced \cup {r.state}
  /\ lastEvent' = [type |-> "newProblem"]
  /\ UNCHANGED <<dom, listeners, call>>

\* weights[k] = parseFloat(e.target.value)
SliderHandler(w, k, v) == [w EXCEPT ![k + 1] = v]

\* mutant of SliderResult: the listener does not call updateUI()
SliderResult_noUpdate(w0, k, v, pg, st, d) ==
  [weights |-> SliderHandler(w0, k, v),
   page    |-> [pg EXCEPT !.controls[k + 1].value = v,
                          !.controls[k + 1].label = toFixed2(v)],
   threw   |-> FALSE]

\* what the input listener of slider w<k> leaves behind: the weight, the
\* span text, then updateUI()
SliderResult(w0, k, v, pg, st, d) ==
  LET w  == SliderHandler(w0, k, v)
      p1 == [pg EXCEPT !.controls[k + 1].value = v,
                       !.controls[k + 1].label = toFixed2(v)]
      ui == updateUI(p1, w, st, d)
  IN  [weights |-> w, page |-> ui.page, threw |-> ui.threw]

\* 'input' event on slider w<k>
SliderInput(k, v) ==
  /\ k + 1 \in DOMAIN page.controls
  /\ \E r \in {SliderResult(weights, k, v, page, state, dom)} :
         /\ weights' = r.weights
         /\ page' = r.page
         /\ threw' = r.threw
  /\ lastEvent' = [type |-> "slider"]
  /\ UNCHANGED <<gen, state, dom, listeners, produced, call>>

\* the CSV text: header row, then one row per sample, each coordinate toFixed(6)
csvOf(data) == [header |-> <<"x", "y">>, rows |-> data, digits |-> 6]

\* downloadBtn click: offers the file, changes nothing the script keeps
DownloadClick ==
  /\ listeners.download
  /\ threw' = FALSE
  /\ lastEvent' = [type |-> "download", name |-> "regression_data.csv",
                   csv |-> csvOf(state.data)]
  /\ UNCHANGED <<gen, state, weights, dom, page, listeners, produced, call>>

MaxSliders == DEGREE_MAX + 2

Next ==
  \/ \E seed \in Seeds : NewProblemClick(seed)
  \/ \E k \in 0..(MaxSliders - 1), v \in SliderVals : SliderInput(k, v)
  \/ DownloadClick

\* the page as shipped: every looked-up element exists
Init == InitIn({AllPresent})
Spec == Init /\ [][Next]_vars

\* the page with any subset of the looked-up elements missing
InitDom == InitIn(AnyDocument)
SpecDom == InitDom /\ [][Next]_vars

-----------------------------------------------------------------------------
(* One generator invocation followed draw by draw *)

GenSeeds == {SeedAt(i) : i \in 1..NumGenSeeds}

InitGen ==
  \E seed \in GenSeeds : \E r \in {RunScript(AllPresent)} :
        /\ gen = StartGen(seed)
        /\ dom = AllPresent
        /\ state = r.state
        /\ weights = r.weights
        /\ page = r.page
        /\ listeners = r.listeners
        /\ threw = r.threw
        /\ lastEvent = [type |-> "startup"]
        /\ produced = {r.state}
        /\ call = NoCall

session == <<state, weights, dom, page, listeners, threw, lastEvent, produced, call>>

GenDegree == gen.pc = "degree" /\ gen' = StepDegree(gen) /\ UNCHANGED session
GenCoeff  == gen.pc = "coeff"  /\ gen' = StepCoeff(gen)  /\ UNCHANGED session
GenX      == gen.pc = "x"      /\ gen' = StepX(gen)      /\ UNCHANGED session
GenU      == gen.pc = "u" /\ gen.tries < MaxRedraw /\ gen' = StepU(gen) /\ UNCHANGED session
GenV      == gen.pc = "v" /\ gen.tries < MaxRedraw /\ gen' = StepV(gen) /\ UNCHANGED session
GenBounds == gen.pc = "bounds" /\ gen' = StepBounds(gen) /\ UNCHANGED session

NextGen == GenDegree \/ GenCoeff \/ GenX \/ GenU \/ GenV \/ GenBounds

\* the invocation is synchronous code: it keeps stepping until it returns
SpecGen == InitGen /\ [][NextGen]_vars /\ WF_vars(NextGen)

-----------------------------------------------------------------------------
(* The evaluator functions called directly on bounded inputs *)

BoundedSeqs(S, n) == UNION {[1..k -> S] : k \in 0..n}

CoefVals == 0..3
ArgX == -2..2
SamplePoints == {[x |-> -1, y |-> 2], [x |-> 2, y |-> 17], [x |-> 2, y |-> 2]}

\* the startup session with the samples and the coefficient vector replaced by
\* the inputs of the call
InitEval ==
  \E data \in BoundedSeqs(SamplePoints, MaxData) :
    \E coeffs \in BoundedSeqs(CoefVals, MaxLen) : \E r \in {RunScript(AllPresent)} :
        /\ state = [r.state EXCEPT !.data = data]
        /\ call = [fn |-> "none", coeffs |-> coeffs]
        /\ gen = r.gen
        /\ dom = AllPresent
        /\ weights = r.weights
        /\ page = r.page
        /\ listeners = r.listeners
        /\ threw = r.threw
        /\ lastEvent = [type |-> "startup"]
        /\ produced = {r.state}

CallEvalPoly(x) ==
  /\ call' = [fn |-> "evalPoly", coeffs |-> call.coeffs, x |-> x,
              result |-> evalPoly(call.coeffs, x)]
  /\ UNCHANGED <<gen, state, weights, dom, page, listeners, threw, lastEvent, produced>>

CallComputeMSE ==
  /\ call' = [fn |-> "computeMSE", coeffs |-> call.coeffs,
              result |-> computeMSE(call.coeffs)]
  /\ UNCHANGED <<gen, state, weights, dom, page, listeners, threw, lastEvent, produced>>

NextEval ==
  \/ \E x \in ArgX : CallEvalPoly(x)
  \/ CallComputeMSE

SpecEval == InitEval /\ [][NextEval]_vars

-----------------------------------------------------------------------------
(* Claims about the problem generator, under SpecGen *)

NoZeroDraw == \A j \in 1..Len(gen.log) : ~RandIsZero(gen.log[j].draw)

\* C1: once the degree draw is made, degree is an integer with 1 <= degree <= 4,
\* for every seed, the one whose first LCG state is 0xffffffff included.
C1_DegreeInRange ==
  gen.pc # "degree" => gen.degree \in DEGREE_MIN..DEGREE_MAX

\* the draw that may follow draw a inside the sample phase
SampleDrawFollows(a, b) ==
  CASE a.purpose = "x" -> b.purpose = "u" /\ b.idx = a.idx
    [] a.purpose = "u" -> /\ b.idx = a.idx
                          /\ b.purpose = IF RandIsZero(a.draw) THEN "u" ELSE "v"
    [] a.purpose = "v" -> IF RandIsZero(a.draw)
                            THEN b.purpose = "v" /\ b.idx = a.idx
                            ELSE b.purpose = "x" /\ b.idx = a.idx + 1
    [] OTHER -> FALSE

\* C4: within one invocation the k-th draw is the k-th iterate of the LCG from
\* the seed; draw 1 decides the degree, draws 2..degree+2 are the coefficients
\* in index order, then each sample in index order draws x, then u, then v,
\* a noise draw being repeated only after an exact 0; with no zero draw the
\* invocation makes exactly 1 + (degree+1) + 3*40 draws.
C4_DrawOrder ==
  LET log  == gen.log
      n    == Len(log)
      base == gen.degree + 2
  IN  /\ \A j \in 1..n :
           log[j].draw = LCGNext(IF j = 1 THEN ToUint32(gen.seed) ELSE log[j - 1].draw)
      /\ n >= 1 => log[1].purpose = "degree"
      /\ \A j \in 2..n :
           j <= base => log[j].purpose = "coeff" /\ log[j].idx = j - 2
      /\ n > base => log[base + 1].purpose = "x" /\ log[base + 1].idx = 0
      /\ \A j \in 1..n :
           (j > base /\ j < n) => SampleDrawFollows(log[j], log[j + 1])
      /\ \A j \in 1..n : j > base => log[j].idx \in 0..(N - 1)
      /\ (gen.pc \in {"bounds", "done"} /\ NoZeroDraw) => n = 1 + (gen.degree + 1) + 3 * N

C4_Witness ==
  /\ gen.pc = "done"
  /\ gen.seed = Word(INITIAL_SEED)
  /\ NoZeroDraw
  /\ gen.degree = 1
  /\ Len(gen.log) = 1 + 2 + 3 * N
  /\ gen.log[Len(gen.log)].purpose = "v"

\* C5: every LCG draw returns a value in [0,1): state / (2^32 - 1) is never 1.0.
C5_DrawBelowOne ==
  \A j \in 1..Len(gen.log) : RandBelowOne(gen.log[j].draw)

\* C6: the invocation returns for every seed, 0 included: each redraw loop of
\* gaussian makes at most two draws (at most one of them 0), the u and v handed
\* to Math.log and Math.cos are never 0, and the invocation reaches its return.
C6_Total ==
  /\ [](/\ gen.tries <= 1
        /\ \A i \in 1..Len(gen.points) :
             ~RandIsZero(gen.points[i].u) /\ ~RandIsZero(gen.points[i].v))
  /\ <>(gen.pc = "done")

C6_Witness ==
  /\ gen.pc = "done"
  /\ gen.seed = SeedAt(3)
  /\ \E j \in 1..Len(gen.log) : gen.log[j].purpose = "u" /\ RandIsZero(gen.log[j].draw)

-----------------------------------------------------------------------------
(* Claims about the fit evaluator, under SpecEval *)

RECURSIVE Pow(_, _)
Pow(x, k) == IF k = 0 THEN 1 ELSE x * Pow(x, k - 1)

RECURSIVE SumTo(_, _)
SumTo(f, n) == IF n = 0 THEN 0 ELSE f[n] + SumTo(f, n - 1)

\* sum over k = 0 .. len-1 of coeffs[k] * x^k
RefPoly(coeffs, x) ==
  SumTo([k \in 1..Len(coeffs) |-> coeffs[k] * Pow(x, k - 1)], Len(coeffs))

\* sum over the samples of (y_i - RefPoly(coeffs, x_i))^2
RefSquares(data, coeffs) ==
  SumTo([i \in 1..Len(data) |->
           (data[i].y - RefPoly(coeffs, data[i].x)) * (data[i].y - RefPoly(coeffs, data[i].x))],
        Len(data))

\* C7: evalPoly(coeffs, x) is the sum of coeffs[k] * x^k for a coefficient
\* sequence of any length: 0 for the empty one, c0 for [c0], x for [0,1] and 17
\* for ([1,2,3], 2); whatever the current Problem is.
C7_EvalPolyIsPowerSum ==
  call.fn = "evalPoly" =>
    /\ call.result = RefPoly(call.coeffs, call.x)
    /\ call.coeffs = <<>> => call.result = 0
    /\ Len(call.coeffs) = 1 => call.result = call.coeffs[1]
    /\ call.coeffs = <<0, 1>> => call.result = call.x
    /\ (call.coeffs = <<1, 2, 3>> /\ call.x = 2) => call.result = 17

C7_Witness ==
  /\ call.fn = "evalPoly"
  /\ call.coeffs = <<1, 2, 3>>
  /\ call.x = 2
  /\ call.result = 17
  /\ Len(state.data) = 2

\* C8: computeMSE(coeffs) is (1/n) times the sum of squared residuals over the
\* current samples, for a coefficient vector of any length; it is >= 0, it is 0
\* exactly when every sample is reproduced, and it is 0 for no samples.
C8_MseIsMeanOfSquares ==
  call.fn = "computeMSE" =>
    LET r    == call.result
        data == state.data
        n    == Len(data)
    IN  /\ r.den > 0
        /\ r.num >= 0
        /\ n = 0 => r.num = 0
        /\ n > 0 => r.num * n = RefSquares(data, call.coeffs) * r.den
        /\ r.num = 0 <=> \A i \in 1..n : RefPoly(call.coeffs, data[i].x) = data[i].y

C8_Witness ==
  /\ call.fn = "computeMSE"
  /\ call.coeffs = <<1, 2, 3>>
  /\ state.data = <<[x |-> -1, y |-> 2], [x |-> 2, y |-> 2]>>
  /\ call.result = [num |-> 225, den |-> 2]
  /\ Len(call.coeffs) # state.degree + 1

-----------------------------------------------------------------------------
(* Claims about the session, under Spec and SpecDom *)

\* weights[0] = 0, weights[1] = 1, every other entry 0
ResetVector(n) == [i \in 1..n |-> IF i = 2 THEN 1 ELSE 0]

\* C2: Weights.length is Problem.degree + 1 in every state of the session, and
\* right after startup and after each new-problem click Weights is the reset
\* vector of that length.
C2_WeightsMatchProblem ==
  /\ Len(weights) = state.degree + 1
  /\ lastEvent.type \in {"startup", "newProblem"} => weights = ResetVector(state.degree + 1)

C2_Witness ==
  /\ lastEvent.type = "newProblem"
  /\ state.seed = SeedAt(3)
  /\ state.degree = 4
  /\ weights = <<0, 1, 0, 0, 0>>
  /\ Cardinality(produced) = 3

\* C3: two invocations with the same seed return the same Problem, whatever
\* ran in between; an invocation starts its LCG from its seed alone; the
\* startup Problem is the one of seed 12345.
C3_SameSeedSameProblem ==
  /\ \A p, q \in produced : p.seed = q.seed => p = q
  /\ state \in produced
  /\ gen.seed = state.seed
  /\ gen.log[1].draw = LCGNext(ToUint32(state.seed))
  /\ \E p \in produced : p.seed = Word(INITIAL_SEED)
  /\ lastEvent.type = "startup" => state.seed = Word(INITIAL_SEED)

C3_Witness ==
  /\ lastEvent.type = "newProblem"
  /\ state.seed = Word(INITIAL_SEED)
  /\ Cardinality(produced) = 3

\* C9: a slider input event sets one entry of Weights to its control's value
\* and leaves the other entries, the length and the Problem unchanged; when
\* its handler ends, the model curve and the MSE shown are those of the
\* updated Weights. Weights change only by slider input or new-problem, the
\* Problem only by new-problem.
C9_SliderFrame ==
  [][ /\ lastEvent'.type = "slider" =>
           /\ \E k \in DOMAIN weights :
                 weights' = [weights EXCEPT ![k] = page'.controls[k].value]
           /\ state' = state
           /\ page'.chartModel = modelCurvePoints(weights', state')
           /\ page'.mseText = mseText(weights', state')
           /\ ~threw'
      /\ weights' # weights => lastEvent'.type \in {"slider", "newProblem"}
      /\ state' # state => lastEvent'.type = "newProblem"
    ]_vars

C9_Witness ==
  /\ lastEvent.type = "slider"
  /\ state.degree = 4
  /\ weights = <<SLIDER_MIN, 1, 0, SLIDER_MIN, 0>>
  /\ page.chartModel = modelCurvePoints(weights, state)
  /\ page.mseText = mseText(weights, state)

\* C10: a missing DOM element never ends a run of the script or of a handler
\* in an uncaught error: the update that needs it is skipped, and weight
\* initialisation and every other update complete.
C10_MissingElementSkipped ==
  /\ ~threw
  /\ Len(weights) = state.degree + 1
  /\ dom.chart => page.chartModel = modelCurvePoints(weights, state)
  /\ dom.mse => page.mseText = mseText(weights, state)
  /\ dom.modelEq => page.modelEqText = formatSymbolicPolynomial(state.degree)
  /\ dom.paramControls => Len(page.controls) = Len(weights)

====
